---- MODULE Spec2Model ----
(***************************************************************************)
(* Clinical BERT assertion API: the model lifecycle (app/model.py), the    *)
(* request/response schemas (app/schemas.py) and the HTTP surface          *)
(* (app/main.py), as one state machine.  Every action is one whole         *)
(* load_model() call or one whole HTTP request, from the body the client   *)
(* sends to the response it receives.                                      *)
(*                                                                         *)
(* Text is kept run-length encoded: a string is a sequence of runs         *)
(* [ch, n] (n >= 1 copies of the character ch), so that the 2048-character *)
(* limit is the program's own number.  Scores are fixed-point, in units of *)
(* 10^-5, so that rounding to 4 decimals is a real conversion.             *)
(***************************************************************************)
EXTENDS Integers, Sequences, FiniteSets

(***************************************************************************)
(* Bounds of the model                                                     *)
(***************************************************************************)
MaxRuns == 3
MaxPrefix == 2
MaxScores == 2
MaxLoads == 2

\* Python's None; an object that is set is a one-element sequence
None == <<>>
Some(x) == <<x>>

(***************************************************************************)
(* Strings                                                                 *)
(***************************************************************************)
WS == " "
Chars == {WS, "a"}
RunLens == {1, 2047, 2049}
Run(ch, n) == [ch |-> ch, n |-> n]
Runs == {Run(ch, n) : ch \in Chars, n \in RunLens}

SeqsUpTo(S, k) == UNION {[1..n -> S] : n \in 0..k}

\* a string never has two adjacent runs of the same character
Canonical(s) == \A i \in 1..(Len(s) - 1) : s[i].ch # s[i + 1].ch
Strings == {s \in SeqsUpTo(Runs, MaxRuns) : Canonical(s)}

RECURSIVE len(_)
len(s) == IF s = <<>> THEN 0 ELSE Head(s).n + len(Tail(s))

RECURSIVE lstrip(_)
lstrip(s) == IF s = <<>> THEN <<>>
             ELSE IF Head(s).ch = WS THEN lstrip(Tail(s)) ELSE s

RECURSIVE rstrip(_)
rstrip(s) == IF s = <<>> THEN <<>>
             ELSE IF s[Len(s)].ch = WS THEN rstrip(SubSeq(s, 1, Len(s) - 1)) ELSE s

strip(s) == rstrip(lstrip(s))

(***************************************************************************)
(* JSON values of a request body: a field is missing, a number, a string   *)
(* or a list.                                                              *)
(***************************************************************************)
JsonMissing == [kind |-> "missing", val |-> <<>>]
JsonInt == [kind |-> "int", val |-> <<>>]
JsonStr(s) == [kind |-> "str", val |-> s]
JsonList(l) == [kind |-> "list", val |-> l]

(***************************************************************************)
(* Calls either return a value or raise an exception.                      *)
(***************************************************************************)
NoExc == [type |-> "", msg |-> "", status |-> 0]
Return(v) == [raised |-> FALSE, exc |-> NoExc, value |-> v]
Raise(type, msg) == [raised |-> TRUE, exc |-> [type |-> type, msg |-> msg, status |-> 0], value |-> None]
HTTPException(status_code, detail) ==
    [raised |-> TRUE, exc |-> [type |-> "HTTPException", msg |-> detail, status |-> status_code], value |-> None]

\* RuntimeError and the classes derived from it (torch's OutOfMemoryError is one)
IsRuntimeError(exc) == exc.type \in {"RuntimeError", "OutOfMemoryError"}

(***************************************************************************)
(* app/schemas.py                                                          *)
(***************************************************************************)
SENTENCE_MIN_LENGTH == 1
SENTENCE_MAX_LENGTH == 2048
SENTENCES_MIN_LENGTH == 1
SENTENCES_MAX_LENGTH == 64

ValidationError == Raise("ValidationError", "validation error")

sentence_must_not_be_blank(v) ==
    IF strip(v) = <<>> THEN ValidationError ELSE Return(strip(v))

\* a faulty variant: the length limits are applied to the trimmed sentence
PredictRequest_trim_first(sentence) ==
    IF sentence.kind # "str" THEN ValidationError
    ELSE IF len(strip(sentence.val)) < SENTENCE_MIN_LENGTH THEN ValidationError
    ELSE IF len(strip(sentence.val)) > SENTENCE_MAX_LENGTH THEN ValidationError
    ELSE sentence_must_not_be_blank(sentence.val)

\* PredictRequest(sentence=...): the type, then the Field constraints on the
\* string as sent, then the field validator
PredictRequest(sentence) ==
    IF sentence.kind # "str" THEN ValidationError
    ELSE IF len(sentence.val) < SENTENCE_MIN_LENGTH THEN ValidationError
    ELSE IF len(sentence.val) > SENTENCE_MAX_LENGTH THEN ValidationError
    ELSE sentence_must_not_be_blank(sentence.val)

\* a faulty variant: only the leading whitespace is removed
validate_sentences_lstrip(v) ==
    IF \E i \in 1..Len(v) : v[i].kind # "str" \/ strip(v[i].val) = <<>>
    THEN ValidationError
    ELSE Return([i \in 1..Len(v) |-> lstrip(v[i].val)])

validate_sentences(v) ==
    IF \E i \in 1..Len(v) : v[i].kind # "str" \/ strip(v[i].val) = <<>>
    THEN ValidationError
    ELSE Return([i \in 1..Len(v) |-> strip(v[i].val)])

\* BatchPredictRequest(sentences=...): list[str], then the Field constraints
\* on the list, then the field validator
BatchPredictRequest(sentences) ==
    IF sentences.kind # "list" THEN ValidationError
    ELSE IF \E i \in 1..Len(sentences.val) : sentences.val[i].kind # "str" THEN ValidationError
    ELSE IF Len(sentences.val) < SENTENCES_MIN_LENGTH THEN ValidationError
    ELSE IF Len(sentences.val) > SENTENCES_MAX_LENGTH THEN ValidationError
    ELSE validate_sentences(sentences.val)

\* score: float = Field(ge=0.0, le=1.0), in units of 10^-5
score_ge == 0
score_le == 100000

\* a faulty variant: the upper limit of the score is missing
PredictResponse_no_le(result) ==
    IF result.score < score_ge THEN ValidationError
    ELSE Return([label |-> result.label, score |-> result.score])

\* PredictResponse(label=..., score=...)
PredictResponse(result) ==
    IF result.score < score_ge \/ result.score > score_le THEN ValidationError
    ELSE Return([label |-> result.label, score |-> result.score])

\* BatchPredictItem(sentence=..., label=..., score=...)
BatchPredictItem(r) ==
    IF r.score < score_ge \/ r.score > score_le THEN ValidationError
    ELSE Return([sentence |-> r.sentence, label |-> r.label, score |-> r.score])

BatchPredictResponse(items) == [results |-> items, count |-> Len(items)]

(***************************************************************************)
(* The Inference Provider: a black box.  What one call of the pipeline     *)
(* does is an input of the request that makes the call: it raises any      *)
(* exception, or returns one list of (label, score) pairs per text, in any *)
(* order, of any length.                                                   *)
(***************************************************************************)
Labels == {"PRESENT", "ABSENT", "CONDITIONAL"}
ProviderLabels == {"PRESENT", "ABSENT", "LABEL_0"}
ScoreValues == {-4, 12345, 100004, 100006}
Pair(l, sc) == [label |-> l, score |-> sc]
ScorePairs == {Pair(l, sc) : l \in ProviderLabels, sc \in ScoreValues}
ScoreLists == SeqsUpTo(ScorePairs, MaxScores)

ProviderMsgs == {"CUDA out of memory"}
ProviderErrors ==
    {Raise(t, m) : t \in {"RuntimeError", "OutOfMemoryError", "ValueError"}, m \in ProviderMsgs}

NotCalled == [raised |-> FALSE, exc |-> NoExc, value |-> None]

(***************************************************************************)
(* app/model.py                                                            *)
(***************************************************************************)
NotInitialisedMsg ==
    "Model pipeline is not initialised. Ensure load_model() was called during application startup."

\* a faulty variant: the check for None is missing
get_pipeline_unchecked(p) == Return(p)

get_pipeline(p) ==
    IF p = None THEN Raise("RuntimeError", NotInitialisedMsg) ELSE Return(p)

\* round(x, 4): to the nearest multiple of 10^-4, halves to the even one
round4(x) ==
    LET q == x \div 10
        r == x % 10
    IN  10 * (IF r < 5 THEN q
              ELSE IF r > 5 THEN q + 1
              ELSE IF q % 2 = 0 THEN q ELSE q + 1)

\* max(all_scores, key=lambda x: x["score"]): the first element of maximal score
\* a faulty variant: of several pairs of maximal score, the last one is taken
max_by_score_last(all_scores) ==
    all_scores[CHOOSE i \in 1..Len(all_scores) :
                  /\ \A j \in 1..Len(all_scores) : all_scores[j].score <= all_scores[i].score
                  /\ \A j \in (i + 1)..Len(all_scores) : all_scores[j].score < all_scores[i].score]

max_by_score(all_scores) ==
    all_scores[CHOOSE i \in 1..Len(all_scores) :
                  /\ \A j \in 1..Len(all_scores) : all_scores[j].score <= all_scores[i].score
                  /\ \A j \in 1..(i - 1) : all_scores[j].score < all_scores[i].score]

Min(a, b) == IF a <= b THEN a ELSE b

\* the number of calls of the pipeline that predict_single / predict_batch make
pipe_calls(p) == IF get_pipeline(p).raised THEN 0 ELSE 1

\* out: what the pipeline does when called with the sentence
predict_single(p, sentence, out) ==
    IF get_pipeline(p).raised THEN get_pipeline(p)
    ELSE IF out.raised THEN out
    ELSE LET raw == out.value IN
         IF raw = <<>> THEN Raise("IndexError", "list index out of range")
         ELSE IF raw[1] = <<>> THEN Raise("ValueError", "max() arg is an empty sequence")
         ELSE LET best == max_by_score(raw[1])
              IN  Return([label |-> best.label, score |-> round4(best.score)])

\* out: what the pipeline does when called with the list of sentences
predict_batch(p, sentences, out) ==
    IF get_pipeline(p).raised THEN get_pipeline(p)
    ELSE IF out.raised THEN out
    ELSE LET raw == out.value
             n == Min(Len(sentences), Len(raw))
         IN  IF \E i \in 1..n : raw[i] = <<>>
             THEN Raise("ValueError", "max() arg is an empty sequence")
             ELSE Return([i \in 1..n |->
                            [sentence |-> sentences[i],
                             label |-> max_by_score(raw[i]).label,
                             score |-> round4(max_by_score(raw[i]).score)]])

get_model_info(p) == [loaded |-> p # None]

(***************************************************************************)
(* app/main.py: the application is a stack.  From the outside in: the      *)
(* server-error layer, which runs the handler registered for Exception;    *)
(* the timing middleware; the layer that turns HTTPException and request   *)
(* validation errors into responses; the routes.                           *)
(***************************************************************************)
TimeHeader == "X-Process-Time-Ms"
NoBody == "NoBody"
Response(status_code, detail, body) ==
    [status |-> status_code, detail |-> detail, headers |-> {}, body |-> body]

\* the route handlers: the validated request in, a return value or an exception out
root_route == Return("api info")

health_route(p) ==
    IF ~get_model_info(p).loaded
    THEN HTTPException(503, "Model is not yet loaded. Service is not ready.")
    ELSE Return("ok")

predict_route(p, sentence, out) ==
    LET result == predict_single(p, sentence, out) IN
    IF result.raised
    THEN IF IsRuntimeError(result.exc)
         THEN HTTPException(503, result.exc.msg)
         ELSE HTTPException(500, "Prediction failed.")
    ELSE PredictResponse(result.value)

\* [BatchPredictItem(**r) for r in results]: the first item that fails raises
build_items(results) ==
    IF \E i \in 1..Len(results) : BatchPredictItem(results[i]).raised
    THEN ValidationError
    ELSE Return([i \in 1..Len(results) |-> BatchPredictItem(results[i]).value])

predict_batch_endpoint(p, sentences, out) ==
    LET results == predict_batch(p, sentences, out) IN
    IF results.raised
    THEN IF IsRuntimeError(results.exc)
         THEN HTTPException(503, results.exc.msg)
         ELSE HTTPException(500, "Batch prediction failed.")
    ELSE LET items == build_items(results.value) IN
         IF items.raised THEN items
         ELSE Return(BatchPredictResponse(items.value))

\* the request body is validated against the route's schema before the route
\* runs; a body that fails is answered 422 and the route does not run
request_validation(request, route_result) ==
    IF request.raised THEN Return(Response(422, "validation error", NoBody))
    ELSE IF route_result.raised THEN route_result
    ELSE Return(Response(200, "", route_result.value))

\* HTTPException becomes a response of its status code; any other exception
\* goes on to the layers outside
exception_middleware(result) ==
    IF result.raised /\ result.exc.type = "HTTPException"
    THEN Return(Response(result.exc.status, result.exc.msg, NoBody))
    ELSE result

\* response = await call_next(request); response.headers[...] = ...
add_process_time_header(call_next) ==
    IF call_next.raised THEN call_next
    ELSE Return([call_next.value EXCEPT !.headers = @ \cup {TimeHeader}])

\* @app.exception_handler(Exception): runs in the outermost layer
generic_exception_handler(result) ==
    IF result.raised
    THEN Response(500, "Internal server error. Please try again later.", NoBody)
    ELSE result.value

\* the response the client receives
app(inner) == generic_exception_handler(add_process_time_header(exception_middleware(inner)))

(***************************************************************************)
(* State                                                                   *)
(***************************************************************************)
VARIABLES
    _pipeline,        \* app.model._pipeline: None or Some(pipeline object)
    _load_time_ms,    \* app.model._load_time_ms: None or Some(milliseconds)
    tokenizerLoads,   \* calls of AutoTokenizer.from_pretrained that returned
    classifierLoads,  \* calls of AutoModelForSequenceClassification.from_pretrained that returned
    loadFailed,       \* some load_model() call has raised
    loadResult,       \* how the last operation, if a load_model() call, ended
    op,               \* the last operation: "load_model" or the route of the last request
    loadedBefore,     \* whether the model was loaded when the last operation began
    request,          \* the body of the request being answered
    validated,        \* what the request schema made of it (a call result)
    providerCalls,    \* calls of the pipeline made for the request
    providerOut,      \* what the pipeline did for the request
    predicted,        \* what predict_single / predict_batch returned or raised
    response          \* the response on its way to the client

modelVars == <<_pipeline, _load_time_ms, tokenizerLoads, classifierLoads>>
vars == <<_pipeline, _load_time_ms, tokenizerLoads, classifierLoads, loadFailed, loadResult,
          op, loadedBefore, request, validated, providerCalls, providerOut, predicted,
          response>>

NoRequest == JsonMissing
NoResponse == Response(0, "", NoBody)

\* no response is on its way: the handlers make no await, so the server takes
\* up the next operation only when the one before is over
Idle == response = NoResponse

Init ==
    /\ _pipeline = None
    /\ _load_time_ms = None
    /\ tokenizerLoads = 0
    /\ classifierLoads = 0
    /\ loadFailed = FALSE
    /\ loadResult = "none"
    /\ op = "start"
    /\ loadedBefore = FALSE
    /\ request = NoRequest
    /\ validated = NotCalled
    /\ providerCalls = 0
    /\ providerOut = NotCalled
    /\ predicted = NotCalled
    /\ response = NoResponse

NoInference ==
    /\ validated' = NotCalled
    /\ providerCalls' = 0
    /\ providerOut' = NotCalled
    /\ predicted' = NotCalled

(***************************************************************************)
(* load_model(): from_pretrained of the classifier either returns or       *)
(* raises (the network, the disk); elapsed is the time the load took.      *)
(***************************************************************************)
LoadOutcomes == {"ok", "error"}
LoadTimes == {1200, 3400}

\* a faulty variant: the guard "if _pipeline is not None: return" is missing
load_model_reload(outcome, elapsed) ==
    /\ Idle
    /\ op' = "load_model"
    /\ loadedBefore' = (_pipeline # None)
    /\ request' = NoRequest
    /\ NoInference
    /\ response' = NoResponse
    /\ tokenizerLoads < MaxLoads
    /\ tokenizerLoads' = tokenizerLoads + 1
    /\ IF outcome = "ok"
       THEN /\ classifierLoads' = classifierLoads + 1
            /\ _pipeline' = Some(tokenizerLoads + 1)
            /\ _load_time_ms' = Some(elapsed)
            /\ loadResult' = "loaded"
            /\ UNCHANGED loadFailed
       ELSE /\ loadFailed' = TRUE
            /\ loadResult' = "raised"
            /\ UNCHANGED <<classifierLoads, _pipeline, _load_time_ms>>

\* a faulty variant: _pipeline is assigned before the classifier is fetched
load_model_early_assign(outcome, elapsed) ==
    /\ Idle
    /\ op' = "load_model"
    /\ loadedBefore' = (_pipeline # None)
    /\ request' = NoRequest
    /\ NoInference
    /\ response' = NoResponse
    /\ IF _pipeline # None
       THEN /\ loadResult' = "skipped"
            /\ UNCHANGED <<modelVars, loadFailed>>
       ELSE /\ tokenizerLoads < MaxLoads
            /\ tokenizerLoads' = tokenizerLoads + 1
            /\ _pipeline' = Some(tokenizerLoads + 1)
            /\ IF outcome = "ok"
               THEN /\ classifierLoads' = classifierLoads + 1
                    /\ _load_time_ms' = Some(elapsed)
                    /\ loadResult' = "loaded"
                    /\ UNCHANGED loadFailed
               ELSE /\ loadFailed' = TRUE
                    /\ loadResult' = "raised"
                    /\ UNCHANGED <<classifierLoads, _load_time_ms>>

load_model(outcome, elapsed) ==
    /\ Idle
    /\ op' = "load_model"
    /\ loadedBefore' = (_pipeline # None)
    /\ request' = NoRequest
    /\ NoInference
    /\ response' = NoResponse
    /\ IF _pipeline # None
       THEN /\ loadResult' = "skipped"
            /\ UNCHANGED <<modelVars, loadFailed>>
       ELSE /\ tokenizerLoads < MaxLoads
            /\ tokenizerLoads' = tokenizerLoads + 1
            /\ IF outcome = "ok"
               THEN /\ classifierLoads' = classifierLoads + 1
                    /\ _pipeline' = Some(tokenizerLoads + 1)
                    /\ _load_time_ms' = Some(elapsed)
                    /\ loadResult' = "loaded"
                    /\ UNCHANGED loadFailed
               ELSE /\ loadFailed' = TRUE
                    /\ loadResult' = "raised"
                    /\ UNCHANGED <<classifierLoads, _pipeline, _load_time_ms>>

LoadModel == \E outcome \in LoadOutcomes, elapsed \in LoadTimes : load_model(outcome, elapsed)

(***************************************************************************)
(* Requests                                                                *)
(***************************************************************************)
\* GET /
Root ==
    /\ Idle
    /\ op' = "root"
    /\ loadedBefore' = (_pipeline # None)
    /\ request' = NoRequest
    /\ NoInference
    /\ response' = app(request_validation(Return(None), root_route))
    /\ loadResult' = "none"
    /\ UNCHANGED <<modelVars, loadFailed>>

\* GET /health
Health ==
    /\ Idle
    /\ op' = "health"
    /\ loadedBefore' = (_pipeline # None)
    /\ request' = NoRequest
    /\ NoInference
    /\ response' = app(request_validation(Return(None), health_route(_pipeline)))
    /\ loadResult' = "none"
    /\ UNCHANGED <<modelVars, loadFailed>>

\* GET /predict, GET /predict/batch: the router answers 405, no route runs
MethodNotAllowed ==
    /\ Idle
    /\ op' = "method_not_allowed"
    /\ loadedBefore' = (_pipeline # None)
    /\ request' = NoRequest
    /\ NoInference
    /\ response' = app(Return(Response(405, "Method Not Allowed", NoBody)))
    /\ loadResult' = "none"
    /\ UNCHANGED <<modelVars, loadFailed>>

\* the bodies a client sends to POST /predict
PredictBodies == {JsonMissing, JsonInt} \cup {JsonStr(s) : s \in Strings}

\* what the pipeline may do when called with one sentence
SingleOutcomes == ProviderErrors \cup {Return(<<>>)} \cup {Return(<<l>>) : l \in ScoreLists}

\* POST /predict
Predict ==
    /\ Idle
    /\ \E body \in PredictBodies :
        LET req == PredictRequest(body)
            calls == IF req.raised THEN 0 ELSE pipe_calls(_pipeline)
        IN  \E out \in IF calls = 0 THEN {NotCalled} ELSE SingleOutcomes :
                /\ op' = "predict"
                /\ loadedBefore' = (_pipeline # None)
                /\ request' = body
                /\ validated' = req
                /\ providerCalls' = calls
                /\ providerOut' = out
                /\ predicted' = IF req.raised THEN NotCalled
                                ELSE predict_single(_pipeline, req.value, out)
                /\ response' = app(request_validation(req,
                                     IF req.raised THEN req
                                     ELSE predict_route(_pipeline, req.value, out)))
                /\ loadResult' = "none"
                /\ UNCHANGED <<modelVars, loadFailed>>

\* the elements a client puts in the list of POST /predict/batch
BatchElems ==
    {JsonInt, JsonStr(<<>>), JsonStr(<<Run(WS, 1)>>), JsonStr(<<Run("a", 1)>>),
     JsonStr(<<Run(WS, 1), Run("a", 1)>>), JsonStr(<<Run("a", 2049)>>)}
PadElem == JsonStr(<<Run("a", 2047), Run(WS, 1)>>)
PadCounts == {0, SENTENCES_MAX_LENGTH - 1}

\* a list: up to MaxPrefix elements of any kind, then pad copies of a valid one
BatchList(prefix, pad) ==
    [i \in 1..(Len(prefix) + pad) |-> IF i <= Len(prefix) THEN prefix[i] ELSE PadElem]

BatchBodies ==
    {JsonMissing, JsonInt}
        \cup {JsonList(BatchList(prefix, pad)) : prefix \in SeqsUpTo(BatchElems, MaxPrefix), pad \in PadCounts}

\* the per-text outputs of the pipeline in a batch call
BatchScoreLists ==
    {<<>>,
     <<Pair("PRESENT", 12345)>>,
     <<Pair("ABSENT", 12345), Pair("PRESENT", 12345)>>,
     <<Pair("PRESENT", -4), Pair("LABEL_0", 100006)>>}
PadScoreList == <<Pair("ABSENT", -4), Pair("PRESENT", 12345), Pair("ABSENT", 12345)>>

\* what the pipeline may do when called with n sentences: raise, or return a
\* list of n outputs, or of one fewer, or of one more
BatchOutcomes(n) ==
    ProviderErrors
        \cup {Return([i \in 1..m |-> IF i <= Len(head) THEN head[i] ELSE PadScoreList]) :
                 head \in SeqsUpTo(BatchScoreLists, MaxPrefix),
                 m \in {k \in {n - 1, n, n + 1} : k >= 0}}

\* POST /predict/batch
PredictBatch ==
    /\ Idle
    /\ \E body \in BatchBodies :
        LET req == BatchPredictRequest(body)
            calls == IF req.raised THEN 0 ELSE pipe_calls(_pipeline)
        IN  \E out \in IF calls = 0 THEN {NotCalled} ELSE BatchOutcomes(Len(req.value)) :
                /\ op' = "predict_batch"
                /\ loadedBefore' = (_pipeline # None)
                /\ request' = body
                /\ validated' = req
                /\ providerCalls' = calls
                /\ providerOut' = out
                /\ predicted' = IF req.raised THEN NotCalled
                                ELSE predict_batch(_pipeline, req.value, out)
                /\ response' = app(request_validation(req,
                                     IF req.raised THEN req
                                     ELSE predict_batch_endpoint(_pipeline, req.value, out)))
                /\ loadResult' = "none"
                /\ UNCHANGED <<modelVars, loadFailed>>

\* the client has the response; the exchange is over
Deliver ==
    /\ ~Idle
    /\ op' = "idle"
    /\ loadedBefore' = (_pipeline # None)
    /\ request' = NoRequest
    /\ NoInference
    /\ response' = NoResponse
    /\ loadResult' = "none"
    /\ UNCHANGED <<modelVars, loadFailed>>

Next == LoadModel \/ Root \/ Health \/ MethodNotAllowed \/ Predict \/ PredictBatch \/ Deliver

Spec == Init /\ [][Next]_vars

(***************************************************************************)
(* Properties                                                              *)
(***************************************************************************)
InferenceOps == {"predict", "predict_batch"}
RequestOps == {"root", "health", "method_not_allowed", "predict", "predict_batch"}

\* the model has never been loaded: no load_model() call has completed
NeverLoaded == classifierLoads = 0

\* C1: while the model is not loaded, a POST /predict or POST /predict/batch
\* with valid input, and a GET /health, is answered 503, and the pipeline is
\* not called.
C1_NotLoaded503 ==
    /\ (op \in InferenceOps /\ NeverLoaded /\ ~validated.raised)
          => (response.status = 503 /\ providerCalls = 0)
    /\ (op = "health" /\ NeverLoaded)
          => (response.status = 503 /\ providerCalls = 0)

C1_Witness ==
    /\ op = "predict_batch"
    /\ NeverLoaded
    /\ ~validated.raised
    /\ Len(validated.value) = SENTENCES_MAX_LENGTH
    /\ response.status = 503

\* C2: a POST /predict/batch answered 200 has count = length of results =
\* length of the validated input, and its i-th result is the classification
\* of the i-th output of the pipeline, whatever the pipeline returned.
C2_BatchCountAndOrder ==
    (op = "predict_batch" /\ response.status = 200) =>
        /\ response.body.count = Len(response.body.results)
        /\ response.body.count = Len(validated.value)
        /\ \A i \in 1..Len(response.body.results) :
              /\ response.body.results[i].label = max_by_score(providerOut.value[i]).label
              /\ response.body.results[i].score = round4(max_by_score(providerOut.value[i]).score)

\* C3: with the model loaded, a failure of the pipeline is answered 500,
\* whatever its kind; 503 is answered only when the model is not loaded; the
\* pipeline is called at most once and a failure gives no result.
C3_ProviderFailure500 ==
    op \in InferenceOps =>
        /\ providerCalls <= 1
        /\ providerOut.raised => response.status # 200
        /\ (loadedBefore /\ providerOut.raised) => response.status = 500
        /\ response.status = 503 => ~loadedBefore

\* the fixed texts of the 500 and 503 responses
GenericDetails ==
    {"Prediction failed.", "Batch prediction failed.",
     "Internal server error. Please try again later.", NotInitialisedMsg}

\* C4: the detail of a 500 or 503 response of POST /predict or POST
\* /predict/batch is one of the fixed texts, never the message of the
\* exception the pipeline raised.
C4_GenericDetail ==
    (op \in InferenceOps /\ response.status \in {500, 503}) =>
        /\ response.detail \in GenericDetails
        /\ providerOut.raised => response.detail # providerOut.exc.msg

\* a sentence as the claim describes the invalid ones: missing, not a string,
\* empty, whitespace only, or longer than the limit as sent
Blank(s) == \A i \in 1..Len(s) : s[i].ch = WS
SentenceInvalid(j) ==
    \/ j.kind # "str"
    \/ Blank(j.val)
    \/ len(j.val) > SENTENCE_MAX_LENGTH

\* C5: a POST /predict with an invalid sentence is answered 422, loaded or
\* not, and the pipeline is not called.
C5_InvalidSentence422 ==
    (op = "predict" /\ SentenceInvalid(request)) =>
        (response.status = 422 /\ providerCalls = 0)

\* a sentence too long as sent, within the limit once trimmed, model loaded
C5_Witness ==
    /\ op = "predict"
    /\ loadedBefore
    /\ request.kind = "str"
    /\ len(request.val) > SENTENCE_MAX_LENGTH
    /\ ~Blank(request.val)
    /\ len(strip(request.val)) <= SENTENCE_MAX_LENGTH
    /\ response.status = 422

\* a list as the claim describes the invalid ones
BatchInvalid(j) ==
    /\ j.kind = "list"
    /\ \/ Len(j.val) = 0
       \/ Len(j.val) > SENTENCES_MAX_LENGTH
       \/ \E i \in 1..Len(j.val) : SentenceInvalid(j.val[i])

\* C6: a POST /predict/batch with no item, more than 64 items, or an invalid
\* element is answered 422 and the pipeline is not called.
C6_BatchAllOrNothing ==
    (op = "predict_batch" /\ BatchInvalid(request)) =>
        (response.status = 422 /\ providerCalls = 0)

\* the pipeline reported only labels of the closed set
OnlyClosedLabels(all_scores) == \A k \in 1..Len(all_scores) : all_scores[k].label \in Labels

\* C7: every 200 response of POST /predict, and every result of a 200
\* response of POST /predict/batch, has 0.0 <= score <= 1.0 whatever score the
\* pipeline reported, and a label of the closed set when the pipeline reported
\* only such labels.
C7_ScoreAndLabelRange ==
    /\ (op = "predict" /\ response.status = 200) =>
          /\ 0 <= response.body.score /\ response.body.score <= 100000
          /\ OnlyClosedLabels(providerOut.value[1]) => response.body.label \in Labels
    /\ (op = "predict_batch" /\ response.status = 200) =>
          \A i \in 1..Len(response.body.results) :
              /\ 0 <= response.body.results[i].score
              /\ response.body.results[i].score <= 100000
              /\ OnlyClosedLabels(providerOut.value[i]) => response.body.results[i].label \in Labels

\* a 200 response although the pipeline reported, as the best, a score above 1.0
C7_Witness ==
    /\ op = "predict"
    /\ response.status = 200
    /\ max_by_score(providerOut.value[1]).score > 100000
    /\ OnlyClosedLabels(providerOut.value[1])

\* C8: once a load_model() call has succeeded, a later call acquires neither
\* the tokenizer nor the classifier and leaves the pipeline and the load time
\* as they are; the pipeline is built once.
C8_LoadIdempotent ==
    [][/\ (op' = "load_model" /\ _pipeline # None) =>
              UNCHANGED <<_pipeline, _load_time_ms, tokenizerLoads, classifierLoads>>
       /\ classifierLoads' <= 1
       /\ (_pipeline' # None) => classifierLoads' = 1]_vars

\* a load_model() call made with the model loaded, after a call that had failed
C8_Witness ==
    /\ op = "load_model"
    /\ loadResult = "skipped"
    /\ loadFailed
    /\ tokenizerLoads > classifierLoads

\* what the readiness machine does in every step, whatever follows a failed load
ReadinessStep ==
    /\ (_pipeline # None) => (_pipeline' # None)
    /\ (_pipeline = None /\ _pipeline' # None) => (op' = "load_model" /\ loadResult' = "loaded")
    /\ op' \in RequestOps => UNCHANGED modelVars
    /\ loadResult' = "raised" => (_pipeline = None /\ _pipeline' = None)

\* C9, as stated: ... and once a load_model() call has failed the model is
\* not loaded, for the rest of the process.
C9_Original == [][ReadinessStep /\ (loadFailed' => _pipeline' = None)]_vars

\* C9, amended: the only transition is NOT_READY -> READY, made by a
\* load_model() call that succeeds; no request changes the model state; a
\* load_model() call that fails leaves the state NOT_READY (a later call may
\* still succeed).
C9_Readiness == [][ReadinessStep]_vars

\* loaded and serving, after a load_model() call that had failed
C9_Witness ==
    /\ loadFailed
    /\ _pipeline # None
    /\ op = "health"
    /\ response.status = 200

\* C10: every response carries the header X-Process-Time-Ms.
C10_TimeHeaderAlways ==
    (op \in RequestOps /\ ~Idle) => TimeHeader \in response.headers

\* the text without the whitespace runs at its two ends
Trimmed(s) ==
    LET inside == {k \in 1..Len(s) : s[k].ch # WS}
    IN  IF inside = {} THEN <<>>
        ELSE SubSeq(s, CHOOSE k \in inside : \A m \in inside : k <= m,
                       CHOOSE k \in inside : \A m \in inside : k >= m)

\* C11, as stated: in a 200 response of POST /predict/batch the sentence of
\* the i-th result is the i-th text of the request, as sent.
C11_Original ==
    (op = "predict_batch" /\ response.status = 200) =>
        \A i \in 1..Len(response.body.results) :
            response.body.results[i].sentence = request.val[i].val

\* C11, amended: in a 200 response of POST /predict/batch the sentence of the
\* i-th result is the i-th text of the request with the whitespace at its two
\* ends removed.
C11_SentenceIsTrimmedInput ==
    (op = "predict_batch" /\ response.status = 200) =>
        \A i \in 1..Len(response.body.results) :
            response.body.results[i].sentence = Trimmed(request.val[i].val)

\* a 200 response with as many results as a request may carry texts, the
\* first sent with whitespace before it, the last with whitespace after it
C11_Witness ==
    /\ op = "predict_batch"
    /\ response.status = 200
    /\ Len(request.val) = SENTENCES_MAX_LENGTH
    /\ Len(response.body.results) = SENTENCES_MAX_LENGTH
    /\ request.val[1].val[1].ch = WS
    /\ request.val[SENTENCES_MAX_LENGTH].val[Len(request.val[SENTENCES_MAX_LENGTH].val)].ch = WS

\* pair k of all_scores has the maximal score and is the first that has it
FirstOfMaximalScore(all_scores, k) ==
    /\ \A j \in 1..Len(all_scores) : all_scores[j].score <= all_scores[k].score
    /\ \A j \in 1..(k - 1) : all_scores[j].score # all_scores[k].score

\* the score rounded to 4 decimals, halves to the even digit
ToFourDecimals(x) ==
    CHOOSE y \in {10 * ((x \div 10) + d) : d \in {0, 1}} :
        \/ 2 * (IF y >= x THEN y - x ELSE x - y) < 10
        \/ (2 * (IF y >= x THEN y - x ELSE x - y) = 10 /\ (y \div 10) % 2 = 0)

\* r is the pair all_scores[k], as returned
IsPair(r, all_scores, k) ==
    r.label = all_scores[k].label /\ r.score = all_scores[k].score

\* r is the pair all_scores[k], its score rounded to 4 decimals
IsRoundedPair(r, all_scores, k) ==
    r.label = all_scores[k].label /\ r.score = ToFourDecimals(all_scores[k].score)

\* predict_single or predict_batch has returned
Predicted == op \in InferenceOps /\ providerCalls = 1 /\ ~predicted.raised

\* C12, as stated: predict_single, and predict_batch for each input, return
\* the pair of maximal score the pipeline returned for the text, the first of
\* them when several have it.
C12_Original ==
    /\ (Predicted /\ op = "predict") =>
          \E k \in 1..Len(providerOut.value[1]) :
              /\ FirstOfMaximalScore(providerOut.value[1], k)
              /\ IsPair(predicted.value, providerOut.value[1], k)
    /\ (Predicted /\ op = "predict_batch") =>
          \A i \in 1..Len(predicted.value) :
              \E k \in 1..Len(providerOut.value[i]) :
                  /\ FirstOfMaximalScore(providerOut.value[i], k)
                  /\ IsPair(predicted.value[i], providerOut.value[i], k)

\* C12, amended: predict_single, and predict_batch for each input, return the
\* label of the pair of maximal score the pipeline returned for the text, the
\* first of them when several have it, and its score rounded to 4 decimals.
C12_FirstArgmaxRounded ==
    /\ (Predicted /\ op = "predict") =>
          \E k \in 1..Len(providerOut.value[1]) :
              /\ FirstOfMaximalScore(providerOut.value[1], k)
              /\ IsRoundedPair(predicted.value, providerOut.value[1], k)
    /\ (Predicted /\ op = "predict_batch") =>
          \A i \in 1..Len(predicted.value) :
              \E k \in 1..Len(providerOut.value[i]) :
                  /\ FirstOfMaximalScore(providerOut.value[i], k)
                  /\ IsRoundedPair(predicted.value[i], providerOut.value[i], k)

\* predict_single has returned for two pairs of the same score and different
\* labels, that score outside the range a response may carry
C12_Witness ==
    /\ Predicted
    /\ op = "predict"
    /\ Len(providerOut.value[1]) = 2
    /\ providerOut.value[1][1].score = providerOut.value[1][2].score
    /\ providerOut.value[1][1].label # providerOut.value[1][2].label
    /\ providerOut.value[1][1].score > 100000
    /\ response.status = 500

====
